---- MODULE Spec2Model ----
(***************************************************************************)
(* Vector nodes of node-graph/gcore/src/vector/vector_nodes.rs.            *)
(*                                                                         *)
(* Coordinates are integers.  A DAffine2 is an integer matrix plus an      *)
(* integer translation; the transforms used have determinant 1 or -1, so   *)
(* that the inverse is again an integer transform.  A Subpath is a list    *)
(* of anchors joined by straight segments, open or closed; the result of   *)
(* new_cubic_spline carries the flag spline (its handles are the curve     *)
(* library's numerics and are not modelled).                               *)
(***************************************************************************)
EXTENDS Integers, Sequences, FiniteSets, TLC

VARIABLES
    vector_data,   \* the VectorData value flowing through the synchronous nodes
    outcome,       \* "ok", or "panic" once a node has unwrapped a missing bounding box
    last,          \* the node applied last and its parameters
    nops,          \* number of nodes applied so far
    node,          \* CopyToPoints: the upstream handles, self.points and self.instance
    pc,            \* CopyToPoints: position of each evaluation
    footprint,     \* CopyToPoints: the footprint argument of each evaluation
    points,        \* CopyToPoints: local `points` of each evaluation
    instance,      \* CopyToPoints: local `instance` of each evaluation
    cursor,        \* CopyToPoints: number of anchors already merged by each evaluation
    result,        \* CopyToPoints: local `result` of each evaluation
    calls,         \* CopyToPoints: upstream evaluations started by each evaluation
    returned       \* CopyToPoints: value handed back to the caller by each evaluation

vars == <<vector_data, outcome, last, nops, node, pc, footprint, points, instance,
          cursor, result, calls, returned>>

syncVars == <<vector_data, outcome, last, nops>>
asyncVars == <<node, pc, footprint, points, instance, cursor, result, calls, returned>>

(***************************************************************************)
(* Bounds of the model.                                                    *)
(***************************************************************************)
MaxOps == 2
MaxPaths == 4

(***************************************************************************)
(* glam: DVec2 and DAffine2.                                               *)
(***************************************************************************)
Abs(x) == IF x < 0 THEN -x ELSE x

Div(a, d) == IF d > 0 THEN a \div d ELSE (-a) \div (-d)

SetMin(S) == CHOOSE x \in S : \A y \in S : x <= y

SetMax(S) == CHOOSE x \in S : \A y \in S : y <= x

DVec2(x, y) == <<x, y>>

ZERO == DVec2(0, 0)

VAdd(p, q) == <<p[1] + q[1], p[2] + q[2]>>

VSub(p, q) == <<p[1] - q[1], p[2] - q[2]>>

VScale(k, p) == <<k * p[1], k * p[2]>>

\* (p / 2.): exact for the even sums the nodes are applied to
VHalf(p) == <<Div(p[1], 2), Div(p[2], 2)>>

VEven(p) == p[1] % 2 = 0 /\ p[2] % 2 = 0

DAffine2(m11, m12, m21, m22, tx, ty) ==
    [m11 |-> m11, m12 |-> m12, m21 |-> m21, m22 |-> m22, tx |-> tx, ty |-> ty]

IDENTITY == DAffine2(1, 0, 0, 1, 0, 0)

from_translation(v) == DAffine2(1, 0, 0, 1, v[1], v[2])

\* DAffine2::from_angle for the angles that are whole quarter turns (degrees)
from_angle(deg) ==
    LET q == (deg \div 90) % 4
    IN  CASE q = 0 -> DAffine2(1, 0, 0, 1, 0, 0)
          [] q = 1 -> DAffine2(0, -1, 1, 0, 0, 0)
          [] q = 2 -> DAffine2(-1, 0, 0, -1, 0, 0)
          [] OTHER -> DAffine2(0, 1, -1, 0, 0, 0)

transform_vector2(T, v) == <<T.m11 * v[1] + T.m12 * v[2], T.m21 * v[1] + T.m22 * v[2]>>

transform_point2(T, p) == VAdd(transform_vector2(T, p), <<T.tx, T.ty>>)

\* A * B: apply B first, then A
Mul(A, B) ==
    LET t == transform_point2(A, <<B.tx, B.ty>>)
    IN  DAffine2(A.m11 * B.m11 + A.m12 * B.m21, A.m11 * B.m12 + A.m12 * B.m22,
                 A.m21 * B.m11 + A.m22 * B.m21, A.m21 * B.m12 + A.m22 * B.m22,
                 t[1], t[2])

Det(T) == T.m11 * T.m22 - T.m12 * T.m21

inverse(T) ==
    LET d == Det(T)
        i11 == Div(T.m22, d)
        i12 == Div(-T.m12, d)
        i21 == Div(-T.m21, d)
        i22 == Div(T.m11, d)
    IN  DAffine2(i11, i12, i21, i22,
                 -(i11 * T.tx + i12 * T.ty), -(i21 * T.tx + i22 * T.ty))

(***************************************************************************)
(* bezier-rs: Subpath.                                                     *)
(***************************************************************************)
Subpath(a, c, s) == [anchors |-> a, closed |-> c, spline |-> s]

from_anchors(a, c) == Subpath(a, c, FALSE)

new_rect(c1, c2) == from_anchors(<<c1, <<c2[1], c1[2]>>, c2, <<c1[1], c2[2]>>>>, TRUE)

new_cubic_spline(a) == Subpath(a, FALSE, TRUE)

anchors(sp) == sp.anchors

is_empty(sp) == Len(sp.anchors) = 0

apply_transform(sp, T) ==
    [sp EXCEPT !.anchors = [i \in 1..Len(sp.anchors) |-> transform_point2(T, sp.anchors[i])]]

\* The end points of the straight segments of a path, the closing one included
Segments(sp) ==
    LET n == Len(sp.anchors)
        open == [i \in 1..(IF n = 0 THEN 0 ELSE n - 1) |-> <<sp.anchors[i], sp.anchors[i + 1]>>]
    IN  IF sp.closed /\ n >= 2 THEN Append(open, <<sp.anchors[n], sp.anchors[1]>>) ELSE open

AxisAligned(seg) == seg[1][1] = seg[2][1] \/ seg[1][2] = seg[2][2]

SegLength(seg) == Abs(seg[2][1] - seg[1][1]) + Abs(seg[2][2] - seg[1][2])

\* The paths whose arc length is a whole number: straight, axis-aligned segments
Measurable(sp) == ~sp.spline /\ \A i \in 1..Len(Segments(sp)) : AxisAligned(Segments(sp)[i])

RECURSIVE SumLengths(_, _)
SumLengths(segs, i) == IF i > Len(segs) THEN 0 ELSE SegLength(segs[i]) + SumLengths(segs, i + 1)

length(sp) == SumLengths(Segments(sp), 1)

Sign(x) == IF x > 0 THEN 1 ELSE IF x < 0 THEN -1 ELSE 0

RECURSIVE Walk(_, _, _)
Walk(segs, i, t) ==
    IF i > Len(segs) THEN segs[Len(segs)][2]
    ELSE IF t <= SegLength(segs[i])
         THEN <<segs[i][1][1] + t * Sign(segs[i][2][1] - segs[i][1][1]),
                segs[i][1][2] + t * Sign(segs[i][2][2] - segs[i][1][2])>>
         ELSE Walk(segs, i + 1, t - SegLength(segs[i]))

\* subpath.evaluate(SubpathTValue::GlobalEuclidean(t / length)): the point at arc
\* length t from the start, clamped to the path
evaluate(sp, t) ==
    IF Len(Segments(sp)) = 0 THEN sp.anchors[1]
    ELSE Walk(Segments(sp), 1, IF t < 0 THEN 0 ELSE t)

(***************************************************************************)
(* VectorData.                                                             *)
(***************************************************************************)
NoFill == [kind |-> "None"]

NoStroke == [kind |-> "None"]

DefaultStyle == [fill |-> NoFill, stroke |-> NoStroke]

DefaultAlpha == "normal"

VectorData(sps, T, st, ma, ab) ==
    [subpaths |-> sps, transform |-> T, style |-> st, mirror_angle |-> ma, alpha_blending |-> ab]

\* VectorData::default / VectorData::empty
empty == VectorData(<<>>, IDENTITY, DefaultStyle, <<>>, DefaultAlpha)

from_subpaths(sps) == [empty EXCEPT !.subpaths = sps]

\* The end points of every segment of every path, mapped through T: a path of
\* fewer than two anchors has no segment and adds nothing to the extent
SegmentPoints(sps, T) ==
    UNION {{transform_point2(T, Segments(sps[i])[j][k]) : j \in 1..Len(Segments(sps[i])), k \in 1..2} :
           i \in 1..Len(sps)}

NoBox == [some |-> FALSE]

SomeBox(lo, hi) == [some |-> TRUE, lo |-> lo, hi |-> hi]

\* VectorData::bounding_box_with_transform: the extent of the paths mapped through T
bounding_box_with_transform(vd, T) ==
    LET pts == SegmentPoints(vd.subpaths, T)
    IN  IF pts = {} THEN NoBox
        ELSE SomeBox(<<SetMin({p[1] : p \in pts}), SetMin({p[2] : p \in pts})>>,
                     <<SetMax({p[1] : p \in pts}), SetMax({p[2] : p \in pts})>>)

\* VectorData::bounding_box: the extent of the paths in the scene's local space
bounding_box(vd) == bounding_box_with_transform(vd, IDENTITY)

\* GraphicElementRendered::bounding_box(transform) of an instance
rendered_bounding_box(inst, T) == bounding_box_with_transform(inst, T)

unwrap_or_default(b) == IF b.some THEN <<b.lo, b.hi>> ELSE <<ZERO, ZERO>>

HasSpline(vd) == \E i \in 1..Len(vd.subpaths) : vd.subpaths[i].spline

Ok(v) == [ok |-> TRUE, value |-> v]

Panic == [ok |-> FALSE]

(***************************************************************************)
(* The nodes.                                                              *)
(***************************************************************************)
NoColor == "NoColor"

Solid(c) == [kind |-> "Solid", color |-> c]

Gradient(start, end, transform, positions, gradient_type) ==
    [kind |-> "Gradient", start |-> start, end |-> end, transform |-> transform,
     positions |-> positions, gradient_type |-> gradient_type]

set_vector_data_fill(vd, fill_type, solid_color, gradient_type, start, end, transform, positions) ==
    [vd EXCEPT !.style.fill =
        IF fill_type \in {"None", "Solid"}
        THEN (IF solid_color = NoColor THEN NoFill ELSE Solid(solid_color))
        ELSE Gradient(start, end, transform, positions, gradient_type)]

set_vector_data_stroke(vd, color, weight, dash_lengths, dash_offset, line_cap, line_join, miter_limit) ==
    [vd EXCEPT !.style.stroke =
        [kind |-> "Stroke", color |-> color, weight |-> weight, dash_lengths |-> dash_lengths,
         dash_offset |-> dash_offset, line_cap |-> line_cap, line_join |-> line_join,
         line_join_miter_limit |-> miter_limit]]

\* for mut subpath in subpaths.clone() { subpath.apply_transform(transform); push }
TransformedCopy(sps, T) == [j \in 1..Len(sps) |-> apply_transform(sps[j], T)]

RepeatDirectionMut(T, direction) == direction

\* lines 93-94: the direction mapped into the scene's local space
RepeatDirection(T, direction) == transform_vector2(inverse(T), direction)

\* line 96
RepeatTransform(direction, i) == from_translation(VScale(i, direction))

RECURSIVE RepeatLoop(_, _, _, _)
RepeatLoop(sps, direction, i, count) ==
    IF i >= count THEN <<>>
    ELSE TransformedCopy(sps, RepeatTransform(direction, i)) \o RepeatLoop(sps, direction, i + 1, count)

repeat_vector_data(vd, direction, count) ==
    [vd EXCEPT !.subpaths = RepeatLoop(vd.subpaths, RepeatDirection(vd.transform, direction), 0, count)]

\* line 124, in degrees: (360 / count) * i + angle_offset
CircularAngle(i, count, angle_offset) == Div(360 * i, count) + angle_offset

\* line 126
CircularTransform(center, base_transform, angle) ==
    Mul(from_translation(center), Mul(from_angle(angle), from_translation(base_transform)))

RECURSIVE CircularLoop(_, _, _, _, _, _)
CircularLoop(sps, center, base_transform, angle_offset, i, count) ==
    IF i >= count THEN <<>>
    ELSE TransformedCopy(sps, CircularTransform(center, base_transform, CircularAngle(i, count, angle_offset)))
         \o CircularLoop(sps, center, base_transform, angle_offset, i + 1, count)

CircularBoxMut(vd) == SomeBox(unwrap_or_default(bounding_box(vd))[1], unwrap_or_default(bounding_box(vd))[2])

\* line 118: the box that is unwrapped
CircularBox(vd) == bounding_box(vd)

circular_repeat_vector_data(vd, angle_offset, radius, count) ==
    LET box == CircularBox(vd)
    IN  IF ~box.some THEN Panic
        ELSE LET center == VHalf(VAdd(box.lo, box.hi))
                 base_transform == VSub(DVec2(0, radius), center)
             IN  Ok([vd EXCEPT !.subpaths =
                        CircularLoop(vd.subpaths, center, base_transform, angle_offset, 0, count)])

generate_bounding_box(vd) ==
    LET box == bounding_box(vd)
    IN  IF ~box.some THEN Panic
        ELSE Ok(from_subpaths(<<new_rect(transform_point2(vd.transform, box.lo),
                                         transform_point2(vd.transform, box.hi))>>))

ConcatTransformMut(transform, other) == Mul(other.transform, transform)

\* line 156: transform * other.transform
ConcatTransform(transform, other) == Mul(transform, other.transform)

\* line 160
ConcatStyle(self, other) == other.style

\* ConcatElement for VectorData
concat(self, other, transform) ==
    [self EXCEPT !.subpaths = self.subpaths \o TransformedCopy(other.subpaths, ConcatTransform(transform, other)),
                 !.style = ConcatStyle(self, other),
                 !.mirror_angle = self.mirror_angle \o other.mirror_angle,
                 !.alpha_blending = other.alpha_blending]

RECURSIVE Flatten(_)
Flatten(ss) == IF Len(ss) = 0 THEN <<>> ELSE Head(ss) \o Flatten(Tail(ss))

\* line 192: points.subpaths.iter().flat_map(|s| s.anchors())
points_list(pts) == Flatten([i \in 1..Len(pts.subpaths) |-> anchors(pts.subpaths[i])])

\* lines 194-195
instance_center(inst) ==
    LET bb == unwrap_or_default(rendered_bounding_box(inst, IDENTITY))
    IN  VScale(-1, VHalf(VAdd(bb[1], bb[2])))

CopyTranslationMut(pts, point, center) == VAdd(point, center)

\* line 199
CopyTranslation(pts, point, center) == VAdd(transform_point2(pts.transform, point), center)

\* lines 199-200: one turn of the merge loop
MergeStep(res, pts, inst, point) ==
    concat(res, inst, from_translation(CopyTranslation(pts, point, instance_center(inst))))

RECURSIVE MergeLoop(_, _, _, _, _)
MergeLoop(res, pts, inst, list, i) ==
    IF i > Len(list) THEN res
    ELSE MergeLoop(MergeStep(res, pts, inst, list[i]), pts, inst, list, i + 1)

\* copy_to_points once both upstream values are at hand (lines 192-203)
copy_to_points(pts, inst) == MergeLoop(empty, pts, inst, points_list(pts), 1)

\* An f32 spacing: a finite whole number, or one of the non-finite values
Finite(v) == [finite |-> TRUE, value |-> v]

Inf == [finite |-> FALSE, value |-> 0]

is_finite(x) == x.finite

\* lines 233-237: round() in adaptive mode, floor(x + EPSILON) otherwise
SampleCount(used_length, spacing, adaptive_spacing) ==
    IF adaptive_spacing THEN (2 * used_length + spacing) \div (2 * spacing)
    ELSE used_length \div spacing

ResampledClosedMut(closed, count) == closed

\* line 250: subpath.closed() && count as usize > 1
ResampledClosed(closed, count) == closed /\ count > 1

\* lines 240-250: the path rebuilt from count + 1 samples
Resample(sp, len, used_length, spacing, start_offset, adaptive_spacing, count) ==
    LET used_length_without_remainder == used_length - (used_length % spacing)
        used_length_here == IF adaptive_spacing THEN used_length ELSE used_length_without_remainder
        new_anchors == [k \in 1..(count + 1) |->
                           evaluate(sp, Div((k - 1) * used_length_here, count) + start_offset)]
    IN  from_anchors(new_anchors, ResampledClosed(sp.closed, count))

\* lines 221-253: the body of the loop, for one path
sample_subpath(sp, T, spacing, start_offset, stop_offset, adaptive_spacing) ==
    IF is_empty(sp) \/ ~is_finite(spacing) \/ spacing.value <= 0 THEN sp
    ELSE LET world == apply_transform(sp, T)
             len == length(world)
             used_length == len - start_offset - stop_offset
         IN  IF used_length <= 0 THEN world
             ELSE LET count == SampleCount(used_length, spacing.value, adaptive_spacing)
                      sampled == IF count >= 1
                                 THEN Resample(world, len, used_length, spacing.value, start_offset,
                                               adaptive_spacing, count)
                                 ELSE world
                  IN  apply_transform(sampled, inverse(T))

sample_points(vd, spacing, start_offset, stop_offset, adaptive_spacing) ==
    [vd EXCEPT !.subpaths = [i \in 1..Len(vd.subpaths) |->
        sample_subpath(vd.subpaths[i], vd.transform, spacing, start_offset, stop_offset, adaptive_spacing)]]

splines_from_points(vd) ==
    [vd EXCEPT !.subpaths = [i \in 1..Len(vd.subpaths) |-> new_cubic_spline(anchors(vd.subpaths[i]))]]

(***************************************************************************)
(* Inputs of the synchronous nodes.                                        *)
(***************************************************************************)
Seg == from_anchors(<<DVec2(0, 0), DVec2(2, 0)>>, FALSE)

Sq == from_anchors(<<DVec2(0, 0), DVec2(2, 0), DVec2(2, 2), DVec2(0, 2)>>, TRUE)

EmptyPath == from_anchors(<<>>, FALSE)

ShearX == DAffine2(1, -1, 0, 1, 0, 0)

Rot90 == DAffine2(0, -1, 1, 0, 0, 0)

FlipShift == DAffine2(-1, 0, 0, 1, 2, 0)

Transforms == {IDENTITY, ShearX, FlipShift}

PathLists == {<<>>, <<Seg>>, <<Seg, Sq>>, <<EmptyPath>>}

\* mirror_angle holds manipulator group ids; at the start it is no longer than the path list
MirrorLists(sps) == {[i \in 1..n |-> i] : n \in 0..Len(sps)}

Directions == {DVec2(2, 1)}

Counts == {0, 1, 2}

\* the counts and offsets whose turn angles are whole quarter turns
CircularCounts == {0, 1, 2, 4}

AngleOffsets == {90}

Radii == {2}

FillInputs == {<<"None", NoColor>>, <<"Solid", "red">>, <<"Gradient", "red">>}

Multiply == "multiply"

Others ==
    { VectorData(<<>>, IDENTITY, [fill |-> Solid("blue"), stroke |-> NoStroke], <<>>, Multiply),
      VectorData(<<Seg>>, Rot90, DefaultStyle, <<7>>, DefaultAlpha) }

ConcatTransforms == {IDENTITY, from_translation(DVec2(1, 1))}

Instances ==
    { VectorData(<<Seg>>, IDENTITY, DefaultStyle, <<7>>, DefaultAlpha),
      VectorData(<<>>, IDENTITY, [fill |-> Solid("blue"), stroke |-> NoStroke], <<>>, Multiply) }

\* <<spacing, start_offset, stop_offset, adaptive_spacing>>
SampleInputs ==
    { <<Inf, 0, 0, FALSE>>, <<Finite(0), 0, 0, FALSE>>, <<Finite(2), 0, 0, FALSE>>,
      <<Finite(2), 1, 1, FALSE>>, <<Finite(8), 0, 0, FALSE>>, <<Finite(4), 0, 0, TRUE>> }

(***************************************************************************)
(* The synchronous nodes applied one after the other to a scene.           *)
(***************************************************************************)
InitAsyncIdle ==
    /\ node = [points |-> <<>>, instance |-> <<>>]
    /\ pc = <<>>
    /\ footprint = <<>>
    /\ points = <<>>
    /\ instance = <<>>
    /\ cursor = <<>>
    /\ result = <<>>
    /\ calls = <<>>
    /\ returned = <<>>

Init ==
    /\ \E sps \in PathLists, T \in Transforms :
          \E ma \in MirrorLists(sps) :
             vector_data = VectorData(sps, T, DefaultStyle, ma, DefaultAlpha)
    /\ outcome = "ok"
    /\ last = [op |-> "none", arg |-> <<>>]
    /\ nops = 0
    /\ InitAsyncIdle

\* A node is applied: its value replaces the scene, or its panic ends the evaluation
Apply(res, op, arg) ==
    /\ outcome = "ok"
    /\ nops < MaxOps
    /\ res.ok => Len(res.value.subpaths) <= MaxPaths
    /\ vector_data' = IF res.ok THEN res.value ELSE vector_data
    /\ outcome' = IF res.ok THEN "ok" ELSE "panic"
    /\ last' = [op |-> op, arg |-> arg]
    /\ nops' = nops + 1
    /\ UNCHANGED asyncVars

SetFillNode ==
    \E f \in FillInputs :
       Apply(Ok(set_vector_data_fill(vector_data, f[1], f[2], "Linear", ZERO, DVec2(1, 0), IDENTITY, <<>>)),
             "SetFill", f)

SetStrokeNode ==
    Apply(Ok(set_vector_data_stroke(vector_data, "black", 1, <<>>, 0, "Butt", "Miter", 4)),
          "SetStroke", <<>>)

RepeatNode ==
    \E direction \in Directions, count \in Counts :
       Apply(Ok(repeat_vector_data(vector_data, direction, count)),
             "Repeat", [direction |-> direction, count |-> count])

\* the scenes and parameters for which the centre and the turn angles are whole numbers
CircularExact(vd, angle_offset, count) ==
    /\ ~HasSpline(vd)
    /\ bounding_box(vd).some => VEven(VAdd(bounding_box(vd).lo, bounding_box(vd).hi))
    /\ \A i \in 0..(count - 1) : (360 * i) % count = 0 /\ CircularAngle(i, count, angle_offset) % 90 = 0

CircularRepeatNode ==
    \E angle_offset \in AngleOffsets, radius \in Radii, count \in CircularCounts :
       /\ CircularExact(vector_data, angle_offset, count)
       /\ Apply(circular_repeat_vector_data(vector_data, angle_offset, radius, count),
                "CircularRepeat", [angle_offset |-> angle_offset, radius |-> radius, count |-> count])

BoundingBoxNode ==
    /\ ~HasSpline(vector_data)
    /\ Apply(generate_bounding_box(vector_data), "BoundingBox", <<>>)

ConcatCall ==
    \E other \in Others, transform \in ConcatTransforms :
       Apply(Ok(concat(vector_data, other, transform)),
             "concat", [other |-> other, transform |-> transform])

\* CopyToPoints with the scene as the points upstream's value
CopyToPointsNode ==
    \E inst \in Instances :
       Apply(Ok(copy_to_points(vector_data, inst)), "CopyToPoints", [instance |-> inst])

\* the paths and parameters for which arc lengths and sample positions are whole numbers
SampleExact(sp, T, spacing, start_offset, stop_offset, adaptive_spacing) ==
    \/ is_empty(sp)
    \/ ~is_finite(spacing)
    \/ spacing.value <= 0
    \/ /\ is_finite(spacing)
       /\ spacing.value > 0
       /\ Measurable(apply_transform(sp, T))
       /\ LET used == length(apply_transform(sp, T)) - start_offset - stop_offset
              count == SampleCount(used, spacing.value, adaptive_spacing)
          IN  (used > 0 /\ count >= 1 /\ adaptive_spacing) => used % count = 0

SamplePointsNode ==
    \E s \in SampleInputs :
       /\ \A i \in 1..Len(vector_data.subpaths) :
             SampleExact(vector_data.subpaths[i], vector_data.transform, s[1], s[2], s[3], s[4])
       /\ Apply(Ok(sample_points(vector_data, s[1], s[2], s[3], s[4])), "SamplePoints",
                [spacing |-> s[1], start_offset |-> s[2], stop_offset |-> s[3], adaptive_spacing |-> s[4]])

SplinesFromPointsNode ==
    Apply(Ok(splines_from_points(vector_data)), "SplinesFromPoints", <<>>)

Next ==
    \/ SetFillNode
    \/ SetStrokeNode
    \/ RepeatNode
    \/ CircularRepeatNode
    \/ BoundingBoxNode
    \/ ConcatCall
    \/ CopyToPointsNode
    \/ SamplePointsNode
    \/ SplinesFromPointsNode

Spec == Init /\ [][Next]_vars

(***************************************************************************)
(* CopyToPoints as an asynchronous node: evaluations of one node suspend   *)
(* at the two upstream awaits and may interleave or be dropped there.      *)
(***************************************************************************)
Evals == {1, 2}

Footprints == {"fpA", "fpB"}

Seg2 == from_anchors(<<DVec2(1, 3), DVec2(0, 1)>>, FALSE)

Dot == from_anchors(<<DVec2(1, 1)>>, FALSE)

\* values the points upstream may produce
PointScenes ==
    { empty,
      VectorData(<<Seg>>, FlipShift, DefaultStyle, <<>>, DefaultAlpha),
      VectorData(<<Seg2, Seg>>, ShearX, DefaultStyle, <<1>>, DefaultAlpha) }

\* values the instance upstream may produce
InstScenes ==
    { VectorData(<<Seg, Seg2>>, Rot90, [fill |-> Solid("blue"), stroke |-> NoStroke], <<7>>, Multiply),
      VectorData(<<Dot>>, IDENTITY, DefaultStyle, <<>>, DefaultAlpha) }

InitSyncIdle ==
    /\ vector_data = empty
    /\ outcome = "ok"
    /\ last = [op |-> "none", arg |-> <<>>]
    /\ nops = 0

InitAsync ==
    /\ InitSyncIdle
    /\ \E p \in [Footprints -> PointScenes], i \in [Footprints -> InstScenes] :
          node = [points |-> p, instance |-> i]
    /\ pc = [e \in Evals |-> "idle"]
    /\ footprint = [e \in Evals |-> "fpA"]
    /\ points = [e \in Evals |-> empty]
    /\ instance = [e \in Evals |-> empty]
    /\ cursor = [e \in Evals |-> 0]
    /\ result = [e \in Evals |-> empty]
    /\ calls = [e \in Evals |-> <<>>]
    /\ returned = [e \in Evals |-> empty]

\* line 189: the context handed to self.points.eval
PointsEvalFootprint(fp) == fp

InstanceEvalFootprintMut(fp) == "fpA"

\* line 190: the context handed to self.instance.eval
InstanceEvalFootprint(fp) == fp

UpstreamCall(n, fp) == [node |-> n, footprint |-> fp, resolved |-> FALSE]

BindLocalMut(locals, e, v) == [x \in DOMAIN locals |-> v]

\* `let points = ...` / `let instance = ...`: a binding owned by the evaluation
BindLocal(locals, e, v) == [locals EXCEPT ![e] = v]

\* The node is called with a footprint and starts evaluating the points upstream
Call(e, fp) ==
    /\ pc[e] = "idle"
    /\ footprint' = [footprint EXCEPT ![e] = fp]
    /\ calls' = [calls EXCEPT ![e] = <<UpstreamCall("points", PointsEvalFootprint(fp))>>]
    /\ pc' = [pc EXCEPT ![e] = "await_points"]
    /\ UNCHANGED <<node, points, instance, cursor, result, returned, syncVars>>

\* The first await resolves; the instance upstream is started
PointsReady(e) ==
    /\ pc[e] = "await_points"
    /\ points' = BindLocal(points, e, node.points[calls[e][1].footprint])
    /\ calls' = [calls EXCEPT ![e] =
                    <<[calls[e][1] EXCEPT !.resolved = TRUE],
                      UpstreamCall("instance", InstanceEvalFootprint(footprint[e]))>>]
    /\ pc' = [pc EXCEPT ![e] = "await_instance"]
    /\ UNCHANGED <<node, footprint, instance, cursor, result, returned, syncVars>>

\* The second await resolves; the accumulator starts as I::default()
InstanceReady(e) ==
    /\ pc[e] = "await_instance"
    /\ instance' = BindLocal(instance, e, node.instance[calls[e][2].footprint])
    /\ calls' = [calls EXCEPT ![e][2].resolved = TRUE]
    /\ result' = [result EXCEPT ![e] = empty]
    /\ cursor' = [cursor EXCEPT ![e] = 0]
    /\ pc' = [pc EXCEPT ![e] = "merge"]
    /\ UNCHANGED <<node, footprint, points, returned, syncVars>>

\* One turn of the merge loop
MergeOne(e) ==
    /\ pc[e] = "merge"
    /\ cursor[e] < Len(points_list(points[e]))
    /\ result' = [result EXCEPT ![e] =
                     MergeStep(result[e], points[e], instance[e], points_list(points[e])[cursor[e] + 1])]
    /\ cursor' = [cursor EXCEPT ![e] = cursor[e] + 1]
    /\ UNCHANGED <<node, pc, footprint, points, instance, calls, returned, syncVars>>

\* The loop is over and the accumulator is returned
Return(e) ==
    /\ pc[e] = "merge"
    /\ cursor[e] = Len(points_list(points[e]))
    /\ returned' = [returned EXCEPT ![e] = result[e]]
    /\ pc' = [pc EXCEPT ![e] = "done"]
    /\ UNCHANGED <<node, footprint, points, instance, cursor, result, calls, syncVars>>

\* The evaluation is abandoned at one of its suspension points; its locals go with it
Drop(e) ==
    /\ pc[e] \in {"await_points", "await_instance"}
    /\ pc' = [pc EXCEPT ![e] = "dropped"]
    /\ points' = [points EXCEPT ![e] = empty]
    /\ instance' = [instance EXCEPT ![e] = empty]
    /\ UNCHANGED <<node, footprint, cursor, result, calls, returned, syncVars>>

NextAsync ==
    \E e \in Evals :
       \/ \E fp \in Footprints : Call(e, fp)
       \/ PointsReady(e)
       \/ InstanceReady(e)
       \/ MergeOne(e)
       \/ Return(e)
       \/ Drop(e)

SpecAsync == InitAsync /\ [][NextAsync]_vars

(***************************************************************************)
(* Properties of the synchronous nodes (specification Spec).               *)
(***************************************************************************)
Applied(op) == last'.op = op /\ nops' = nops + 1

\* used = L - start_offset - stop_offset of a path of the scene, L measured in world space
UsedLength(sp, T, arg) == length(apply_transform(sp, T)) - arg.start_offset - arg.stop_offset

Sampled(sp, arg) == ~is_empty(sp) /\ is_finite(arg.spacing) /\ arg.spacing.value > 0

\* C1: SamplePoints leaves a path untouched when it is skipped: a non-empty path
\* sampled with a finite positive spacing and used <= 0 is stored unchanged, in the
\* scene's local space, whatever the scene transform is.
C1_SkippedPathUntouched ==
    [][Applied("SamplePoints") =>
          \A i \in 1..Len(vector_data.subpaths) :
             LET sp == vector_data.subpaths[i]
             IN  (Sampled(sp, last'.arg) /\ UsedLength(sp, vector_data.transform, last'.arg) <= 0)
                 => vector_data'.subpaths[i] = sp]_vars

\* the paths SamplePoints rebuilds, and the count it rebuilds them with
CountOf(sp, T, arg) == SampleCount(UsedLength(sp, T, arg), arg.spacing.value, arg.adaptive_spacing)

Rebuilt(sp, T, arg) == Sampled(sp, arg) /\ UsedLength(sp, T, arg) > 0 /\ CountOf(sp, T, arg) >= 1

\* C2 as stated: a path rebuilt from count + 1 samples is closed exactly when the
\* original was closed and more than one sample was produced (count + 1 > 1).
C2_ClosedIffMoreThanOneSample ==
    [][Applied("SamplePoints") =>
          \A i \in 1..Len(vector_data.subpaths) :
             LET sp == vector_data.subpaths[i]
             IN  Rebuilt(sp, vector_data.transform, last'.arg)
                 => (vector_data'.subpaths[i].closed
                       <=> (sp.closed /\ CountOf(sp, vector_data.transform, last'.arg) + 1 > 1))]_vars

\* C2 amended: a path rebuilt from count + 1 samples is closed exactly when the original
\* was closed and count > 1, that is when more than two samples were produced; it has
\* count + 1 anchors, and a closed original with count = 1 yields an open path.
C2_ClosedIffCountAboveOne ==
    [][Applied("SamplePoints") =>
          \A i \in 1..Len(vector_data.subpaths) :
             LET sp == vector_data.subpaths[i]
                 count == CountOf(sp, vector_data.transform, last'.arg)
             IN  Rebuilt(sp, vector_data.transform, last'.arg)
                 => /\ vector_data'.subpaths[i].closed <=> (sp.closed /\ count > 1)
                    /\ Len(vector_data'.subpaths[i].anchors) = count + 1]_vars

\* A closed square sampled with count = 1 has become an open path of two samples,
\* both at the start of the square
C2_Witness ==
    /\ last.op = "SamplePoints"
    /\ last.arg.spacing = Finite(8)
    /\ \E i \in 1..Len(vector_data.subpaths) :
          /\ Len(vector_data.subpaths[i].anchors) = 2
          /\ vector_data.subpaths[i].anchors[1] = vector_data.subpaths[i].anchors[2]
          /\ ~vector_data.subpaths[i].closed

\* C3: BoundingBox emits exactly one rectangular path whose extent is the axis-aligned
\* bounding box of all input paths in world space, for every affine scene transform,
\* in a scene of default style and identity transform.
C3_BoxIsWorldExtent ==
    [][(Applied("BoundingBox") /\ outcome' = "ok") =>
          /\ Len(vector_data'.subpaths) = 1
          /\ vector_data'.subpaths[1].closed
          /\ bounding_box(vector_data') = bounding_box_with_transform(vector_data, vector_data.transform)
          /\ vector_data'.style = DefaultStyle
          /\ vector_data'.transform = IDENTITY]_vars

\* C4: after any sequence of nodes applied to a scene whose mirror_angle list is no
\* longer than its path list, the mirror_angle list is never longer than the path list.
C4_MirrorAngleWithinPaths == Len(vector_data.mirror_angle) <= Len(vector_data.subpaths)

\* C7: concat(A, B, T) appends B's paths, in order and mapped through T x B.transform,
\* after A's paths, which stay as they were; A's mirror_angle grows by |B.mirror_angle|;
\* A's style and alpha blending become B's; A's transform stays.
C7_ConcatFrame ==
    [][Applied("concat") =>
          LET A == vector_data
              B == last'.arg.other
              T == last'.arg.transform
              R == vector_data'
          IN  /\ Len(R.subpaths) = Len(A.subpaths) + Len(B.subpaths)
              /\ \A i \in 1..Len(A.subpaths) : R.subpaths[i] = A.subpaths[i]
              /\ \A j \in 1..Len(B.subpaths) :
                    LET b == B.subpaths[j]
                        r == R.subpaths[Len(A.subpaths) + j]
                    IN  /\ r.closed = b.closed
                        /\ Len(r.anchors) = Len(b.anchors)
                        /\ \A k \in 1..Len(b.anchors) :
                              r.anchors[k] = transform_point2(T, transform_point2(B.transform, b.anchors[k]))
              /\ Len(R.mirror_angle) = Len(A.mirror_angle) + Len(B.mirror_angle)
              /\ SubSeq(R.mirror_angle, 1, Len(A.mirror_angle)) = A.mirror_angle
              /\ R.style = B.style
              /\ R.alpha_blending = B.alpha_blending
              /\ R.transform = A.transform]_vars

\* A scene with paths has taken the style and alpha blending of a merged scene without paths
C7_Witness ==
    /\ last.op = "concat"
    /\ Len(last.arg.other.subpaths) = 0
    /\ Len(vector_data.subpaths) > 0
    /\ vector_data.style = last.arg.other.style
    /\ vector_data.style # DefaultStyle
    /\ vector_data.alpha_blending = Multiply

\* C8: Repeat with count = n on p paths yields n x p paths grouped by copy index, copy i
\* being the input paths moved by i x d, d the direction mapped through the inverse of
\* the scene transform; count = 0 yields no path, copy 0 is the input, and the scene's
\* transform and style stay.
C8_RepeatCopies ==
    [][Applied("Repeat") =>
          LET n == last'.arg.count
              p == Len(vector_data.subpaths)
              d == transform_vector2(inverse(vector_data.transform), last'.arg.direction)
              R == vector_data'
          IN  /\ Len(R.subpaths) = n * p
              /\ \A i \in 0..(n - 1) : \A j \in 1..p :
                    LET a == vector_data.subpaths[j]
                        r == R.subpaths[i * p + j]
                    IN  /\ r.closed = a.closed
                        /\ Len(r.anchors) = Len(a.anchors)
                        /\ \A k \in 1..Len(a.anchors) : r.anchors[k] = VAdd(a.anchors[k], VScale(i, d))
              /\ (n >= 1 => SubSeq(R.subpaths, 1, p) = vector_data.subpaths)
              /\ R.transform = vector_data.transform
              /\ R.style = vector_data.style]_vars

\* Two copies of a scene of two paths under a transform that changes the direction
C8_Witness ==
    /\ last.op = "Repeat"
    /\ last.arg.count = 2
    /\ Len(vector_data.subpaths) = 4
    /\ transform_vector2(inverse(vector_data.transform), last.arg.direction) # last.arg.direction
    /\ vector_data.subpaths[3] # vector_data.subpaths[1]

\* C9: CircularRepeat fails, producing no scene, whenever the scene's bounding box cannot
\* be computed, for every count, 0 included; when the box can be computed it does not
\* fail and yields count x |paths| paths.
C9_CircularRepeatOutcome ==
    [][Applied("CircularRepeat") =>
          IF bounding_box(vector_data).some
          THEN /\ outcome' = "ok"
               /\ Len(vector_data'.subpaths) = last'.arg.count * Len(vector_data.subpaths)
          ELSE /\ outcome' = "panic"
               /\ vector_data' = vector_data]_vars

\* CircularRepeat with count = 0 has failed on a scene without a bounding box
C9_Witness ==
    /\ last.op = "CircularRepeat"
    /\ last.arg.count = 0
    /\ outcome = "panic"
    /\ ~bounding_box(vector_data).some

(***************************************************************************)
(* Properties of CopyToPoints (specification SpecAsync).                   *)
(***************************************************************************)
\* C5: within one CopyToPoints call the points upstream and the instance upstream are
\* each evaluated once, in that order, both with the footprint of the call, and the
\* merge loop runs only once both upstream values have been produced.
C5_ConsistentFootprint ==
    \A e \in Evals :
       /\ \A i \in 1..Len(calls[e]) : calls[e][i].footprint = footprint[e]
       /\ Len(calls[e]) <= 2
       /\ Len(calls[e]) >= 1 => calls[e][1].node = "points"
       /\ Len(calls[e]) = 2 => (calls[e][2].node = "instance" /\ calls[e][1].resolved)
       /\ pc[e] \in {"merge", "done"} =>
             (Len(calls[e]) = 2 /\ calls[e][1].resolved /\ calls[e][2].resolved)
       /\ pc[e] \notin {"merge", "done"} => (cursor[e] = 0 /\ result[e] = empty)

\* An evaluation called with fpB has merged and returned while the other one, called
\* with fpA, is still waiting for its instance upstream
C5_Witness ==
    \E e \in Evals, o \in Evals :
       /\ pc[e] = "done"
       /\ footprint[e] = "fpB"
       /\ cursor[e] > 0
       /\ pc[o] = "await_instance"
       /\ footprint[o] = "fpA"

RECURSIVE NthAnchor(_, _, _)
NthAnchor(sps, j, i) ==
    IF i <= Len(sps[j].anchors) THEN sps[j].anchors[i]
    ELSE NthAnchor(sps, j + 1, i - Len(sps[j].anchors))

RECURSIVE AnchorCount(_, _)
AnchorCount(sps, j) == IF j > Len(sps) THEN 0 ELSE Len(sps[j].anchors) + AnchorCount(sps, j + 1)

\* the centre of the instance's local bounding box, zero when it has none
LocalCentre(inst) ==
    LET box == rendered_bounding_box(inst, IDENTITY)
    IN  IF box.some THEN VHalf(VAdd(box.lo, box.hi)) ELSE ZERO

C10_IndependentEvaluations ==
    /\ [](\A e \in Evals :
             pc[e] = "done" =>
                returned[e] = copy_to_points(node.points[footprint[e]], node.instance[footprint[e]]))
    /\ [][/\ node' = node
          /\ \A o \in Evals :
                (pc'[o] = pc[o] /\ cursor'[o] = cursor[o]) =>
                   /\ points'[o] = points[o]
                   /\ instance'[o] = instance[o]
                   /\ result'[o] = result[o]
                   /\ returned'[o] = returned[o]
                   /\ calls'[o] = calls[o]
                   /\ footprint'[o] = footprint[o]]_vars

\* An evaluation has returned its copies although the other one, called with another
\* footprint and other upstream values, was abandoned at its second suspension point
C10_Witness ==
    \E e \in Evals, o \in Evals :
       /\ pc[e] = "done"
       /\ Len(returned[e].subpaths) > 0
       /\ pc[o] = "dropped"
       /\ Len(calls[o]) = 2
       /\ footprint[o] # footprint[e]
       /\ node.points[footprint[o]] # node.points[footprint[e]]
       /\ node.instance[footprint[o]] # node.instance[footprint[e]]

====
